---------------------------- MODULE Spec2Model ----------------------------
(***************************************************************************)
(* salesbot-line: the fuzzy product resolution engine.                     *)
(*                                                                         *)
(* A JavaScript string is modelled as a sequence of UTF-16 code units;     *)
(* each code unit is an atom named in ASCII:                               *)
(*   "a".."z", "A".."Z"   Latin letters                                    *)
(*   "sp" U+0020, "nl" U+000A, "cr" U+000D, "ls" U+2028, "ps" U+2029,      *)
(*   "isp" U+3000                                     (all matched by \s)  *)
(*   "comma" ',', "fcomma" U+FF0C, "dun" U+3001, "semi" ';',               *)
(*   "fsemi" U+FF1B                                                        *)
(*   CJK characters by their reading: "cha" "jia" = U+67E5 U+50F9 (price   *)
(*   query), "ku" "cun" = U+5EAB U+5B58 (stock), "de" = U+7684, ...        *)
(* A JavaScript number that the code obtains by a division is kept as the  *)
(* exact fraction <<numerator, denominator>>.                              *)
(***************************************************************************)
EXTENDS Integers, Sequences, FiniteSets, TLC

VARIABLES
    mode,      \* which component the run exercises: "search", "sim", "split",
               \* "resplit" or "bot"
    pc,        \* "call" before the function is applied, "done" after
    variant,   \* the source file whose function was applied ("-" before)
    list,      \* searchProductFuzzy: the catalog (fetchProducts' rows)
    keyword,   \* searchProductFuzzy: the keyword argument
    result,    \* searchProductFuzzy: the returned value
    sa,        \* similarity: first argument
    sb,        \* similarity: second argument
    score,     \* similarity: the returned fraction
    lines,     \* splitKeywords: the lines of the message text
    parts,     \* splitKeywords: the returned array
    again,     \* splitKeywords applied to the first keyword of parts
    signatureOk,       \* webhook: the value of validateSignature
    events,            \* webhook: req.body.events
    sheet,             \* the rows of the products tab of the spreadsheet
    hpc,               \* per event: the await its handleEvent call is at
    call,              \* per event: the reply function called and its state
    fetches,           \* per event: the calls of fetchProducts
    profiles,          \* the events whose handler called client.getProfile
    orders,            \* the rows appended to the orders tab
    replies,           \* the calls of client.replyMessage that succeeded
    userLastKeywords,  \* server_v3.js: the Map of the same name
    status,            \* webhook: the status of the response, 0 before it
    process            \* "running", or "crashed" by an unhandled rejection

botVars == <<signatureOk, events, sheet, hpc, call, fetches, profiles, orders,
             replies, userLastKeywords, status, process>>

vars == <<mode, pc, variant, list, keyword, result, sa, sb, score, lines,
          parts, again, botVars>>

-----------------------------------------------------------------------------
(* Characters and the JavaScript string primitives the code uses.          *)

\* The characters matched by the regular expression class \s, which are also
\* the characters String.prototype.trim removes.
WhiteSpace == {"sp", "nl", "cr", "ls", "ps", "isp"}

\* String.prototype.toLowerCase on one code unit.
LowerChar(c) ==
    CASE c = "A" -> "a"
      [] c = "B" -> "b"
      [] c = "C" -> "c"
      [] c = "D" -> "d"
      [] c = "X" -> "x"
      [] OTHER   -> c

toLowerCase(s) == [i \in 1..Len(s) |-> LowerChar(s[i])]

\* s.replace(/\s+/g, ""): every white-space character is removed.
RemoveWhiteSpace(s) == SelectSeq(s, LAMBDA c : c \notin WhiteSpace)

RECURSIVE TrimStart(_)
TrimStart(s) ==
    IF s # <<>> /\ Head(s) \in WhiteSpace THEN TrimStart(Tail(s)) ELSE s

RECURSIVE TrimEnd(_)
TrimEnd(s) ==
    IF s # <<>> /\ s[Len(s)] \in WhiteSpace
    THEN TrimEnd(SubSeq(s, 1, Len(s) - 1))
    ELSE s

\* String.prototype.trim
trim(s) == TrimEnd(TrimStart(s))

\* String.prototype.includes
includes(s, k) ==
    \E i \in 0..(Len(s) - Len(k)) : SubSeq(s, i + 1, i + Len(k)) = k

\* Whether the string t occurs in s starting at (1-based) position i.
OccursAt(s, t, i) ==
    /\ i >= 1
    /\ i + Len(t) - 1 <= Len(s)
    /\ SubSeq(s, i, i + Len(t) - 1) = t

-----------------------------------------------------------------------------
(* Levenshtein distance and similarity (server.js 244-272, server_v3.js    *)
(* 187-213; the two files hold the same computation).                      *)

Min3(x, y, z) == IF x <= y THEN (IF x <= z THEN x ELSE z)
                           ELSE (IF y <= z THEN y ELSE z)

\* Row i of the matrix, cells j..bn, appended to acc (cells 0..j-1 of row i).
\* A row is a sequence whose element j+1 is matrix[i][j]; prev is row i-1.
RECURSIVE matrixRow(_, _, _, _, _, _)
matrixRow(a, b, prev, i, j, acc) ==
    IF j > Len(b) THEN acc
    ELSE LET cost == IF a[i] = b[j] THEN 0 ELSE 1
             cell == Min3(prev[j + 1] + 1,      \* matrix[i-1][j] + 1
                          acc[j] + 1,           \* matrix[i][j-1] + 1
                          prev[j] + cost)       \* matrix[i-1][j-1] + cost
         IN  matrixRow(a, b, prev, i, j + 1, Append(acc, cell))

\* Rows i..an computed in turn from row i-1; the value is row an.  (The test
\* on the row's length makes TLC compute row i before it goes on to row
\* i+1; every row has bn+1 cells.)
RECURSIVE matrixFill(_, _, _, _)
matrixFill(a, b, prev, i) ==
    IF i > Len(a) THEN prev
    ELSE LET row == matrixRow(a, b, prev, i, 1, <<i>>)
         IN  IF Len(row) = Len(b) + 1
             THEN matrixFill(a, b, row, i + 1)
             ELSE <<>>

levenshtein(a, b) ==
    LET an == Len(a)
        bn == Len(b)
    IN  IF an = 0 THEN bn
        ELSE IF bn = 0 THEN an
        ELSE matrixFill(a, b, [j \in 1..(bn + 1) |-> j - 1], 1)[bn + 1]

\* The mutant of similarity: the longer/shorter swap is left out, so the
\* divisor is always the first argument's length.
similarity_noSwap(a, b) ==
    IF Len(a) = 0 THEN <<1, 1>>
    ELSE <<Len(a) - levenshtein(a, b), Len(a)>>

\* The returned number as the fraction <<numerator, denominator>>.
similarity(a, b) ==
    LET longer  == IF Len(a) < Len(b) THEN b ELSE a
        shorter == IF Len(a) < Len(b) THEN a ELSE b
        longerLength == Len(longer)
    IN  IF longerLength = 0 THEN <<1, 1>>
        ELSE <<longerLength - levenshtein(longer, shorter), longerLength>>

\* Comparison of two fractions with positive denominators: x >= y, x = y.
FracGeq(x, y) == x[1] * y[2] >= y[1] * x[2]
FracEq(x, y)  == x[1] * y[2] = y[1] * x[2]

-----------------------------------------------------------------------------
(* The product resolver: searchProductFuzzy in its four variants.          *)
(* A catalog row is a record [code, name]; the returned value is           *)
(*   null          [kind |-> "null",   items |-> <<>>]                     *)
(*   a product p   [kind |-> "single", items |-> <<p>>]                    *)
(*   {multi: m}    [kind |-> "multi",  items |-> m]                        *)

Null        == [kind |-> "null", items |-> <<>>]
Single(p)   == [kind |-> "single", items |-> <<p>>]
Multi(m)    == [kind |-> "multi", items |-> m]

\* matches.slice(0, 5)
MultiCap == 5

slice(m, n) == SubSeq(m, 1, IF Len(m) < n THEN Len(m) ELSE n)

\* The ten particles of the character class that normalizeText removes
\* (de le zhe ma ne a o ya o ye; "ma" is also the last character of the
\* intent token you-huo-ma).
Fillers == {"de", "le", "zhe", "ma", "ne", "ah", "wo", "ya", "oh", "ye"}

normalizeText(str) ==
    trim(RemoveWhiteSpace(
        SelectSeq(toLowerCase(str), LAMBDA c : c \notin Fillers)))

\* const k = keyword.trim().toLowerCase();            (server.js)
keywordKey_server_noTrim(kw) == toLowerCase(kw)
keywordKey_server(kw) == toLowerCase(trim(kw))

\* const k = normalizeText(keyword);                  (server_v3.js)
keywordKey_v3(kw) == normalizeText(kw)

\* list.find(p => p.code && p.code.toLowerCase() === k): the matching rows,
\* in catalog order; find returns the first of them.
exactCode_caseSensitive(l, k) ==
    SelectSeq(l, LAMBDA p : p.code # <<>> /\ p.code = k)
exactCode(l, k) ==
    SelectSeq(l, LAMBDA p : p.code # <<>> /\ toLowerCase(p.code) = k)

\* The filter of the substring tier.
isSubstring_server(p, k) ==
    \/ (p.code # <<>> /\ includes(toLowerCase(p.code), k))
    \/ (p.name # <<>> /\ includes(toLowerCase(p.name), k))

isSubstring_v3(p, k) ==
    \/ (p.code # <<>> /\ includes(toLowerCase(p.code), k))
    \/ includes(normalizeText(p.name), k)

\* The acceptance thresholds, 0.6 and 0.45, as fractions.
Threshold_server == <<6, 10>>
Threshold_v3     == <<45, 100>>

\* Array.prototype.sort with the comparator (a, b) => b.score - a.score: a
\* stable sort, descending by score.  x goes behind every element whose
\* score is at least its own.
RECURSIVE insertSorted(_, _)
insertSorted(sorted, x) ==
    IF sorted = <<>> THEN <<x>>
    ELSE IF FracGeq(Head(sorted).score, x.score)
         THEN <<Head(sorted)>> \o insertSorted(Tail(sorted), x)
         ELSE <<x>> \o sorted

RECURSIVE sortByScore(_)
sortByScore(xs) ==
    IF xs = <<>> THEN <<>>
    ELSE insertSorted(sortByScore(SubSeq(xs, 1, Len(xs) - 1)), xs[Len(xs)])

\* The mutant of scoredMatches: a strict comparison with the threshold.
scoredMatches_strict(scoredAll, threshold) ==
    LET kept == SelectSeq(scoredAll,
                          LAMBDA x : ~FracGeq(threshold, x.score))
        srt  == sortByScore(kept)
    IN  [i \in 1..Len(srt) |-> srt[i].item]

\* .filter(x => x.score >= threshold).sort(...) and then .map(x => x.item)
scoredMatches(scoredAll, threshold) ==
    LET kept == SelectSeq(scoredAll,
                          LAMBDA x : FracGeq(x.score, threshold))
        srt  == sortByScore(kept)
    IN  [i \in 1..Len(srt) |-> srt[i].item]

\* list.map(p => ({ item: p, score: similarity(..., k) }))
scored_server(l, k) ==
    [i \in 1..Len(l) |->
        [item |-> l[i], score |-> similarity(toLowerCase(l[i].name), k)]]

scored_v3(l, k) ==
    [i \in 1..Len(l) |->
        [item |-> l[i], score |-> similarity(normalizeText(l[i].name), k)]]

\* The candidate list after the substring tier and, only when that tier is
\* empty, the similarity tier.  The mutant consults the similarity tier
\* whatever the substring tier gave.
tiers_always(sub, sim) == sub \o SelectSeq(sim, LAMBDA p :
                              \A i \in 1..Len(sub) : sub[i] # p)
tiers(sub, sim) == IF Len(sub) = 0 THEN sim ELSE sub

\* The last three lines of searchProductFuzzy.
collapse(matches) ==
    IF Len(matches) = 0 THEN Null
    ELSE IF Len(matches) = 1 THEN Single(matches[1])
    ELSE Multi(slice(matches, MultiCap))

searchProductFuzzy_server(l, kw) ==
    LET k == keywordKey_server(kw)
    IN  IF k = <<>> THEN Null
        ELSE IF exactCode(l, k) # <<>> THEN Single(exactCode(l, k)[1])
        ELSE collapse(tiers(
                 SelectSeq(l, LAMBDA p : isSubstring_server(p, k)),
                 scoredMatches(scored_server(l, k), Threshold_server)))

searchProductFuzzy_v3(l, kw) ==
    LET k == keywordKey_v3(kw)
    IN  IF k = <<>> THEN Null
        ELSE IF exactCode(l, k) # <<>> THEN Single(exactCode(l, k)[1])
        ELSE collapse(tiers(
                 SelectSeq(l, LAMBDA p : isSubstring_v3(p, k)),
                 scoredMatches(scored_v3(l, k), Threshold_v3)))

\* unnamed/part_000 and unnamed/part_001: exact name, then partial name; the
\* multi result is the whole partial list.
searchProductFuzzy_part000(l, kw) ==
    IF kw = <<>> THEN Null
    ELSE LET normalized == toLowerCase(RemoveWhiteSpace(kw))
             exact   == SelectSeq(l, LAMBDA p :
                            toLowerCase(RemoveWhiteSpace(p.name)) = normalized)
             partial == SelectSeq(l, LAMBDA p :
                            includes(toLowerCase(p.name), normalized))
         IN  IF exact # <<>> THEN Single(exact[1])
             ELSE IF Len(partial) = 1 THEN Single(partial[1])
             ELSE IF Len(partial) > 1 THEN Multi(partial)
             ELSE Null

searchProductFuzzy_part001(l, kw) ==
    IF kw = <<>> THEN Null
    ELSE LET normalized == toLowerCase(RemoveWhiteSpace(kw))
             exact   == SelectSeq(l, LAMBDA p :
                            toLowerCase(RemoveWhiteSpace(p.name)) = normalized)
             partial == SelectSeq(l, LAMBDA p :
                            includes(toLowerCase(p.name), normalized))
         IN  IF exact # <<>> THEN Single(exact[1])
             ELSE IF Len(partial) = 1 THEN Single(partial[1])
             ELSE IF Len(partial) > 1 THEN Multi(partial)
             ELSE Null

-----------------------------------------------------------------------------
(* The keyword splitter: splitKeywords (server.js 104-115) and the split   *)
(* of replyCodeOnly (unnamed/part_001 97-101).                             *)

\* The price tokens (cha-jia | bao-jia | duo-shao-qian) and the stock tokens
\* (ku-cun | you-huo-ma | you-mei-you-ku-cun), in the order of the
\* alternation.
PriceTokens == << <<"cha", "jia">>, <<"bao", "jia">>,
                  <<"duo", "shao", "qian">> >>
StockTokens == << <<"ku", "cun">>, <<"you", "huo", "ma">>,
                  <<"you", "mei", "you", "ku", "cun">> >>

\* The length of the first alternative of tokens that occurs in s at
\* position i, 0 when none does.
RECURSIVE tokenLenAt(_, _, _)
tokenLenAt(s, tokens, i) ==
    IF tokens = <<>> THEN 0
    ELSE IF OccursAt(s, Head(tokens), i) THEN Len(Head(tokens))
    ELSE tokenLenAt(s, Tail(tokens), i)

\* The mutant of intentMatchLen: the expression is /^(t1|t2|t3)/.
intentMatchLen_startOnly(s, tokens, i) ==
    IF i = 1 THEN tokenLenAt(s, tokens, 1) ELSE 0

\* The length of the match of /(^|\s)(t1|t2|t3)/ that starts at position i,
\* 0 when the expression does not match there.  ^ matches at the start of
\* the string only (the expression has no m flag); \s consumes one
\* white-space character, a line break included.
intentMatchLen(s, tokens, i) ==
    IF i = 1 /\ tokenLenAt(s, tokens, 1) > 0
    THEN tokenLenAt(s, tokens, 1)
    ELSE IF s[i] \in WhiteSpace /\ tokenLenAt(s, tokens, i + 1) > 0
    THEN 1 + tokenLenAt(s, tokens, i + 1)
    ELSE 0

\* s.replace(/(^|\s)(t1|t2|t3)/g, ' ') from position i on: the matches are
\* found left to right and do not overlap.
RECURSIVE replaceIntent(_, _, _)
replaceIntent(s, tokens, i) ==
    IF i > Len(s) THEN <<>>
    ELSE LET n == intentMatchLen(s, tokens, i)
         IN  IF n = 0
             THEN <<s[i]>> \o replaceIntent(s, tokens, i + 1)
             ELSE <<"sp">> \o replaceIntent(s, tokens, i + n)

\* The characters of the split expression: \n, U+3001, ',', U+FF0C,
\* U+FF1B, ';'.
\* (SplitChars_noSemi is the mutant: the ASCII semicolon is missing.)
SplitChars_noSemi == {"nl", "dun", "comma", "fcomma", "fsemi"}
SplitChars == {"nl", "dun", "comma", "fcomma", "fsemi", "semi"}

\* String.prototype.split on a set of one-character separators: the
\* segments between them, the empty ones included.  cur is the segment
\* being read.
RECURSIVE splitOn(_, _, _)
splitOn(s, seps, cur) ==
    IF s = <<>> THEN <<cur>>
    ELSE IF Head(s) \in seps THEN <<cur>> \o splitOn(Tail(s), seps, <<>>)
    ELSE splitOn(Tail(s), seps, Append(cur, Head(s)))

\* .map(s => s.trim()).filter(Boolean)
trimAndDrop(segs) ==
    SelectSeq([i \in 1..Len(segs) |-> trim(segs[i])], LAMBDA x : x # <<>>)

\* The mutant of splitKeywords: the segments are not trimmed.
splitKeywords_noTrim(text) ==
    LET cleaned == trim(replaceIntent(
                       replaceIntent(text, PriceTokens, 1), StockTokens, 1))
    IN  SelectSeq(splitOn(cleaned, SplitChars, <<>>), LAMBDA x : x # <<>>)

splitKeywords(text) ==
    LET cleaned == trim(replaceIntent(
                       replaceIntent(text, PriceTokens, 1), StockTokens, 1))
    IN  trimAndDrop(splitOn(cleaned, SplitChars, <<>>))

\* replyCodeOnly of unnamed/part_001:
\*   keyword.replace(/[\r\u2028\u2029\u3000]+/g, "\n")
\*          .split(/[\n\s,<U+FF0C><U+3001>;<U+FF1B>]+/).filter(Boolean)
\* A run replaced by one "\n" is modelled as each of its characters
\* replaced by "\n": the split is on runs, so the keywords are the same.
\* A run of separators gives only empty segments between its characters, and
\* filter(Boolean) drops them, so the split on runs is the split on single
\* characters followed by the filter.
CodeSplitChars == WhiteSpace \cup {"comma", "fcomma", "dun", "semi", "fsemi"}

codeKeywords_part001(kw) ==
    LET cleaned == [i \in 1..Len(kw) |->
                       IF kw[i] \in {"cr", "ls", "ps", "isp"}
                       THEN "nl" ELSE kw[i]]
    IN  SelectSeq(splitOn(cleaned, CodeSplitChars, <<>>),
                  LAMBDA x : x # <<>>)

-----------------------------------------------------------------------------
(* The event handlers: handleEvent and the reply functions of server.js    *)
(* and server_v3.js.                                                       *)
(*                                                                         *)
(* More characters: "xia" "dan" = U+4E0B U+55AE (order), "cha" "bian"      *)
(* "hao" = U+67E5 U+7DE8 U+865F (code query), "star" '*', "fstar" U+FF0A,  *)
(* "bar" U+FF5C, the digits "0".."9".                                      *)
(* A reply text is modelled by its lines; a line is a record: t names the  *)
(* fixed wording of the line, v holds what the template puts into it.      *)

Ln(t, v) == [t |-> t, v |-> v]

\* The lines of the texts the code builds.
NotFoundLine(kw)  == Ln("notfound", kw)
MultiHeadLine     == Ln("multihead", <<>>)
MoreLine          == Ln("more", <<>>)
TitleLine(name)   == Ln("title", name)
PriceLine(price)  == Ln("price", <<price>>)
StockLine(st)     == Ln("stock", st)
BlankLine         == Ln("blank", <<>>)
PromptLine        == Ln("prompt", <<>>)
QtyLine           == Ln("qty", <<>>)
HelpLine          == Ln("help", <<>>)

\* normalizeStockText: the stock cell is empty, U+6709 ("you"), U+7121
\* ("wu"), a number (a string of digits) or free text.
Digits == {"0", "1", "2", "3", "4", "5", "6", "7", "8", "9"}

DigitVal(c) ==
    CASE c = "0" -> 0 [] c = "1" -> 1 [] c = "2" -> 2 [] c = "3" -> 3
      [] c = "4" -> 4 [] c = "5" -> 5 [] c = "6" -> 6 [] c = "7" -> 7
      [] c = "8" -> 8 [] c = "9" -> 9

\* parseInt(s, 10) and Number(s) of a non-empty string of digits.
RECURSIVE parseInt(_)
parseInt(s) ==
    IF s = <<>> THEN 0
    ELSE parseInt(SubSeq(s, 1, Len(s) - 1)) * 10 + DigitVal(s[Len(s)])

IsNumber(s) == s # <<>> /\ \A i \in 1..Len(s) : s[i] \in Digits

OutOfStock(item, bare) ==
    IF item.restock_eta # <<>> THEN <<"out", "eta">> \o item.restock_eta
    ELSE bare

normalizeStockText_server(item) ==
    LET s == trim(item.stock)
    IN  IF s = <<>> THEN OutOfStock(item, <<"out", "unconfirmed">>)
        ELSE IF s = <<"you">> THEN <<"in">>
        ELSE IF s = <<"wu">> THEN OutOfStock(item, <<"out">>)
        ELSE IF IsNumber(s)
        THEN IF parseInt(s) > 0 THEN <<"in", "count">> \o s
             ELSE OutOfStock(item, <<"out">>)
        ELSE s

normalizeStockText_v3(item) ==
    LET s == trim(item.stock)
    IN  IF s = <<>> THEN OutOfStock(item, <<"out">>)
        ELSE IF s = <<"you">> THEN <<"in">>
        ELSE IF s = <<"wu">> THEN <<"out">>
        ELSE IF IsNumber(s)
        THEN IF parseInt(s) > 0 THEN <<"in", "count">> \o s ELSE <<"out">>
        ELSE s

\* `${p.code}|${p.name}` of server.js and
\* `${p.code ? p.code + '|' : ''}${p.name}` of server_v3.js.
codeName_server(p) == p.code \o <<"bar">> \o p.name
codeName_v3(p) == IF p.code # <<>> THEN p.code \o <<"bar">> \o p.name
                  ELSE p.name

\* The text for several matches; server_v3.js ends it with the request for
\* a more precise name in replyOrder only.
multiText_server(m) ==
    <<MultiHeadLine>> \o [i \in 1..Len(m) |-> Ln("cand", codeName_server(m[i]))]
        \o <<MoreLine>>
multiText_v3(m, more) ==
    <<MultiHeadLine>> \o [i \in 1..Len(m) |-> Ln("cand", codeName_v3(m[i]))]
        \o (IF more THEN <<MoreLine>> ELSE <<>>)

\* The intent tests of handleEvent and handleMultiQuery:
\* /(^|\n|\s)(t1|t2|t3)/.test(s), and /\n|<U+3001>|,|<U+FF0C>|<U+FF1B>|;/.
hasIntent(s, tokens) ==
    \E i \in 1..Len(s) : intentMatchLen(s, tokens, i) > 0
hasMultiLines(s) == \E i \in 1..Len(s) : s[i] \in SplitChars

\* The mutant of itemBlock: the price line is added for a price query only.
itemBlock_priceIfAsked(item, wantsPrice, wantsStock) ==
    <<TitleLine(item.name)>>
        \o (IF wantsPrice THEN <<PriceLine(item.price)>> ELSE <<>>)
        \o (IF wantsStock \/ (~wantsPrice /\ ~wantsStock)
            THEN <<StockLine(normalizeStockText_server(item))>> ELSE <<>>)

\* The block of handleMultiQuery for a single match; block.trim() removes
\* the line break that ends a block with no stock line.
itemBlock(item, wantsPrice, wantsStock) ==
    <<TitleLine(item.name)>>
        \o (IF wantsPrice \/ (~wantsPrice /\ ~wantsStock)
            THEN <<PriceLine(item.price)>> ELSE <<>>)
        \o (IF wantsStock \/ (~wantsPrice /\ ~wantsStock)
            THEN <<StockLine(normalizeStockText_server(item))>> ELSE <<>>)

\* The block of handleMultiQuery for one keyword.
multiBlock(l, kw, wantsPrice, wantsStock) ==
    LET r == searchProductFuzzy_server(l, kw)
    IN  IF r.kind = "null" THEN <<NotFoundLine(kw)>>
        ELSE IF r.kind = "multi" THEN multiText_server(r.items)
        ELSE itemBlock(r.items[1], wantsPrice, wantsStock)

\* The mutant of joinBlocks: blocks.join('\n').
RECURSIVE joinBlocks_noBlank(_)
joinBlocks_noBlank(blocks) ==
    IF blocks = <<>> THEN <<>>
    ELSE Head(blocks) \o joinBlocks_noBlank(Tail(blocks))

\* blocks.join('\n\n'): an empty line between two blocks.
RECURSIVE joinBlocks(_)
joinBlocks(blocks) ==
    IF blocks = <<>> THEN <<>>
    ELSE IF Len(blocks) = 1 THEN Head(blocks)
    ELSE Head(blocks) \o <<BlankLine>> \o joinBlocks(Tail(blocks))

\* The text handleMultiQuery replies with, from the fetched list.
handleMultiQuery(l, textRaw) ==
    LET wantsPrice == hasIntent(textRaw, PriceTokens)
        wantsStock == hasIntent(textRaw, StockTokens)
        keywords   == splitKeywords(textRaw)
    IN  IF Len(keywords) = 0 THEN <<PromptLine>>
        ELSE joinBlocks([i \in 1..Len(keywords) |->
                 multiBlock(l, keywords[i], wantsPrice, wantsStock)])

\* What a reply function has after fetchProducts returned: the text it
\* replies with, the row it appends first (none or one) and the items it
\* passes to setLastKeywords (none or one).
Outcome(text, row, hit) == [text |-> text, row |-> row, hit |-> hit]

\* replyPrice and replyStock of server.js.
replyPrice_server(l, kw) ==
    LET r == searchProductFuzzy_server(l, kw)
    IN  IF r.kind = "null" THEN <<NotFoundLine(kw)>>
        ELSE IF r.kind = "multi" THEN multiText_server(r.items)
        ELSE <<TitleLine(r.items[1].name), PriceLine(r.items[1].price),
               StockLine(normalizeStockText_server(r.items[1]))>>

replyStock_server(l, kw) ==
    LET r == searchProductFuzzy_server(l, kw)
    IN  IF r.kind = "null" THEN <<NotFoundLine(kw)>>
        ELSE IF r.kind = "multi" THEN multiText_server(r.items)
        ELSE <<Ln("titlestock", <<r.items[1].name,
                                  normalizeStockText_server(r.items[1])>>)>>

\* replyPrice, replyStock and replyCodeOnly of server_v3.js: the lines after
\* the first one differ.
lookup_v3(l, kw, fn) ==
    LET r == searchProductFuzzy_v3(l, kw)
    IN  IF r.kind = "null" THEN Outcome(<<NotFoundLine(kw)>>, <<>>, <<>>)
        ELSE IF r.kind = "multi"
        THEN Outcome(multiText_v3(r.items, FALSE), <<>>, <<>>)
        ELSE LET item == r.items[1]
             IN  Outcome(
                     <<Ln("codename", codeName_v3(item))>>
                         \o (IF fn = "replyPrice"
                             THEN <<PriceLine(item.price)>> ELSE <<>>)
                         \o (IF fn \in {"replyPrice", "replyStock"}
                             THEN <<StockLine(normalizeStockText_v3(item))>>
                             ELSE <<>>),
                     <<>>,
                     <<[code |-> item.code, name |-> item.name]>>)

\* The row replyOrder appends; the time stamp of its first column is left
\* out, and the random order id is an opaque value.
OrderRow(orderId, profile, item, qty) ==
    [orderId |-> orderId, userId |-> profile.userId,
     displayName |-> profile.displayName,
     code |-> item.code, name |-> item.name, qty |-> qty,
     price |-> item.price, status |-> "NEW"]

\* The confirmation of replyOrder.
OrderText(shown, qty, orderId, st) ==
    <<Ln("received", <<>>), Ln("item", <<shown, qty>>),
      Ln("orderid", <<orderId>>), Ln("stocktext", st)>>

\* The mutant of replyOrder_accepts: no test of the quantity.
replyOrder_acceptsAll(qty) == qty = qty

\* replyOrder goes on after  if (!qty || qty <= 0) return ...
replyOrder_accepts(qty) == ~(qty = 0 \/ qty <= 0)

\* The mutant of orderIsMulti: several matches are not told from one.
orderIsMulti_never(r) == r.kind = "many"

\* if (item.multi) of replyOrder.
orderIsMulti(r) == r.kind = "multi"

\* replyOrder after the test of the quantity, from the fetched list.
replyOrder(v, l, kw, qty, profile, orderId) ==
    LET r == IF v = "server" THEN searchProductFuzzy_server(l, kw)
             ELSE searchProductFuzzy_v3(l, kw)
    IN  IF r.kind = "null" THEN Outcome(<<NotFoundLine(kw)>>, <<>>, <<>>)
        ELSE IF orderIsMulti(r)
        THEN Outcome(IF v = "server" THEN multiText_server(r.items)
                     ELSE multiText_v3(r.items, TRUE), <<>>, <<>>)
        ELSE LET item == r.items[1]
             IN  Outcome(
                     IF v = "server"
                     THEN OrderText(item.name, qty, orderId,
                                    normalizeStockText_server(item))
                     ELSE OrderText(codeName_v3(item), qty, orderId,
                                    normalizeStockText_v3(item)),
                     <<OrderRow(orderId, profile, item, qty)>>, <<>>)

\* textRaw.match(/^<xia><dan>\s*(.+?)\s*[xX<U+FF0A>*]\s*(\d+)$/).
OrderPrefix == <<"xia", "dan">>
TimesChars == {"x", "X", "fstar", "star"}
LineTerminators == {"nl", "cr", "ls", "ps"}
NoOrder == [matched |-> FALSE, keyword |-> <<>>, qty |-> <<>>]

\* The digits matched by \s*[xX<U+FF0A>*]\s*(\d+)$ on t, <<>> when it does
\* not match.
orderTail(t) ==
    LET u == TrimStart(t)
    IN  IF u = <<>> \/ u[1] \notin TimesChars THEN <<>>
        ELSE LET d == TrimStart(Tail(u))
             IN  IF IsNumber(d) THEN d ELSE <<>>

\* The ways the expression matches the text r that follows the prefix: w
\* white-space characters for the first \s*, then k characters for (.+?),
\* none of them a line terminator.
orderSplits(r) ==
    {wk \in (0..Len(r)) \X (1..Len(r)) :
        /\ wk[1] + wk[2] <= Len(r)
        /\ \A i \in 1..wk[1] : r[i] \in WhiteSpace
        /\ \A i \in (wk[1] + 1)..(wk[1] + wk[2]) : r[i] \notin LineTerminators
        /\ orderTail(SubSeq(r, wk[1] + wk[2] + 1, Len(r))) # <<>>}

\* The match the engine returns: \s* is greedy, (.+?) is lazy.
orderMatch(text) ==
    IF ~OccursAt(text, OrderPrefix, 1) THEN NoOrder
    ELSE LET r == SubSeq(text, Len(OrderPrefix) + 1, Len(text))
             S == orderSplits(r)
         IN  IF S = {} THEN NoOrder
             ELSE LET w == CHOOSE x \in {wk[1] : wk \in S} :
                               \A wk \in S : wk[1] <= x
                      k == CHOOSE x \in {wk[2] : wk \in {y \in S : y[1] = w}} :
                               \A wk \in {y \in S : y[1] = w} : x <= wk[2]
                  IN  [matched |-> TRUE,
                       keyword |-> SubSeq(r, w + 1, w + k),
                       qty |-> orderTail(SubSeq(r, w + k + 1, Len(r)))]

\* The call handleEvent ends with: the function, its keyword (the text for
\* handleMultiQuery) and the quantity of an order.
Call(fn, kw, qty) == [fn |-> fn, keyword |-> kw, qty |-> qty]

CodeToken == <<"cha", "bian", "hao">>

\* textRaw.replace(/^token/, '').trim()
afterToken(textRaw, n) == trim(SubSeq(textRaw, n + 1, Len(textRaw)))

\* /^(<cha><jia>|<bao><jia>)/
priceCommandLen(textRaw) ==
    tokenLenAt(textRaw, <<PriceTokens[1], PriceTokens[2]>>, 1)

handleEvent_server(textRaw) ==
    LET m == orderMatch(textRaw)
    IN  IF m.matched THEN Call("replyOrder", m.keyword, parseInt(m.qty))
        ELSE IF \/ hasIntent(textRaw, PriceTokens)
                \/ hasIntent(textRaw, StockTokens)
                \/ hasMultiLines(textRaw)
        THEN Call("handleMultiQuery", textRaw, 0)
        ELSE IF priceCommandLen(textRaw) > 0
        THEN Call("replyPrice",
                  afterToken(textRaw, priceCommandLen(textRaw)), 0)
        ELSE IF OccursAt(textRaw, StockTokens[1], 1)
        THEN Call("replyStock",
                  afterToken(textRaw, Len(StockTokens[1])), 0)
        ELSE Call("replyText", <<>>, 0)

handleEvent_v3(textRaw) ==
    LET m == orderMatch(textRaw)
    IN  IF m.matched THEN Call("replyOrder", m.keyword, parseInt(m.qty))
        ELSE IF OccursAt(textRaw, CodeToken, 1)
        THEN Call("replyCodeOnly", afterToken(textRaw, Len(CodeToken)), 0)
        ELSE IF priceCommandLen(textRaw) > 0
        THEN Call("replyPrice",
                  afterToken(textRaw, priceCommandLen(textRaw)), 0)
        ELSE IF OccursAt(textRaw, StockTokens[1], 1)
        THEN Call("replyStock",
                  afterToken(textRaw, Len(StockTokens[1])), 0)
        ELSE Call("replyText", <<>>, 0)

\* userLastKeywords.set(userId, normalized.slice(0, 10)): the cap.
LastCap == 10

\* The mutant of setLastKeywords: the items are added to the user's list,
\* the oldest dropped beyond the cap.
setLastKeywords_accumulate(m, userId, items) ==
    IF userId = "" THEN m
    ELSE LET all == m[userId] \o items
         IN  [m EXCEPT ![userId] =
                 SubSeq(all, IF Len(all) > LastCap
                             THEN Len(all) - LastCap + 1 ELSE 1, Len(all))]

\* setLastKeywords: the Map after the call; a user with no entry has the
\* empty list, as getLastKeywords reads it.
setLastKeywords(m, userId, items) ==
    IF userId = "" THEN m
    ELSE LET normalized ==
                 SelectSeq([i \in 1..Len(items) |->
                               [code |-> trim(items[i].code),
                                name |-> trim(items[i].name)]],
                           LAMBDA p : p.code # <<>> \/ p.name # <<>>)
         IN  [m EXCEPT ![userId] = slice(normalized, LastCap)]

-----------------------------------------------------------------------------
(* Inputs.                                                                 *)

\* Bounds of the model.
MaxCatalog == 2     \* rows of a catalog drawn from Products
MaxWide    == 6     \* rows of a catalog drawn from WideProducts
MaxSimLen  == 3     \* length of the strings given to similarity
MaxLines   == 3     \* lines of a message given to splitKeywords
MaxTokens  == 2     \* intent tokens at the head of a single token
MaxEvents  == 2     \* events of a webhook request

SeqsUpTo(S, lo, hi) == UNION {[1..m -> S] : m \in lo..hi}

Rep(c, n) == [i \in 1..n |-> c]

Row(c, n) == [code |-> c, name |-> n]

\* Catalog rows as fetchProducts builds them: code and name are trimmed.
Products ==
    { Row(<<"A", "B">>, <<"a", "c">>),
      Row(<<"a", "b">>, <<"a", "b", "c">>),
      Row(<<"x", "a", "b">>, <<"x", "d">>),
      Row(<<>>, <<"a", "b", "c">>),
      Row(<<>>, <<"A", "b">>),
      Row(<<>>, <<"a", "sp", "b">>),
      Row(<<>>, <<"a", "c">>),
      Row(<<>>, <<"a", "b", "d">>),
      Row(<<>>, <<"a", "d", "c">>),
      Row(<<>>, <<"a", "b", "x", "y", "c">>),
      Row(<<>>, Rep("a", 20)),
      Row(<<>>, <<>>) }

WideProducts ==
    { Row(<<>>, <<"a", "b", "d">>),
      Row(<<>>, <<"a", "b", "x", "y", "c">>) }

Catalogs ==
    SeqsUpTo(Products, 0, MaxCatalog)
        \cup SeqsUpTo(WideProducts, MaxCatalog + 1, MaxWide)

Keywords ==
    { <<>>,
      <<"sp">>,
      <<"sp", "nl">>,
      <<"a", "b">>,
      <<"A", "B">>,
      <<"a", "sp", "b">>,
      <<"sp", "a", "b", "sp">>,
      <<"a", "b", "de">>,
      <<"a", "b", "c">>,
      <<"A", "sp", "b", "C">>,
      Rep("a", 9) \o <<"b">> }

SimStrings == SeqsUpTo({"a", "b"}, 0, MaxSimLen)

\* A line of a message: an intent token (or none), a gap, a product name.
Line(t, g, n) == [intent |-> t, gap |-> g, name |-> n]

LineTokens == {PriceTokens[1], StockTokens[3]}

\* Product names with no split character and no intent token in them.
PlainNames == { <<"a", "b">>, <<"c", "sp", "d">> }

OtherNames ==
    { <<>>,
      <<"sp", "a", "b", "sp">>,
      <<"a", "comma", "b">>,
      <<"a", "semi", "b">>,
      <<"a", "ls", "b">>,
      <<"ku", "cun", "x">> }

MessageLines ==
    { Line(t, g, n) : t \in LineTokens, g \in {<<>>, <<"sp">>},
                      n \in PlainNames }
        \cup { Line(t, <<>>, <<>>) : t \in LineTokens }
        \cup { Line(<<>>, <<>>, n) : n \in PlainNames \cup OtherNames }

Messages == SeqsUpTo(MessageLines, 1, MaxLines)

\* The single tokens given to splitKeywords: up to MaxTokens intent tokens,
\* then a name (empty, plain, or with an intent token inside); no token
\* holds white space or a split character.
IntentTokens ==
    {PriceTokens[i] : i \in 1..Len(PriceTokens)}
        \cup {StockTokens[i] : i \in 1..Len(StockTokens)}

RECURSIVE IntentPrefixes(_)
IntentPrefixes(n) ==
    IF n = 0 THEN {<<>>}
    ELSE LET shorter == IntentPrefixes(n - 1)
         IN  shorter \cup {t \o p : t \in IntentTokens, p \in shorter}

TokenNames == { <<>>, <<"a", "b">>, <<"a", "cha", "jia">> }

SingleTokens ==
    {p \o n : p \in IntentPrefixes(MaxTokens), n \in TokenNames} \ {<<>>}

\* The text of a message: its lines joined with "\n".
RECURSIVE Text(_)
Text(ls) ==
    IF ls = <<>> THEN <<>>
    ELSE LET l == ls[1].intent \o ls[1].gap \o ls[1].name
         IN  IF Len(ls) = 1 THEN l ELSE l \o <<"nl">> \o Text(Tail(ls))

-----------------------------------------------------------------------------
(* The state machines: the inputs are drawn by Init, one action per        *)
(* function applies it.                                                    *)

\* The webhook is at rest: no request was received.
BotIdle ==
    /\ signatureOk = FALSE
    /\ events = <<>>
    /\ sheet = <<>>
    /\ hpc = <<>> /\ call = <<>> /\ fetches = <<>>
    /\ profiles = {}
    /\ orders = <<>> /\ replies = <<>>
    /\ userLastKeywords = <<>>
    /\ status = 0
    /\ process = "running"

Idle ==
    /\ pc = "call"
    /\ variant = "-"
    /\ result = Null
    /\ score = <<1, 1>>
    /\ parts = <<>>
    /\ again = <<>>

InitSearch ==
    /\ mode = "search"
    /\ Idle /\ BotIdle
    /\ list \in Catalogs
    /\ keyword \in Keywords
    /\ sa = <<>> /\ sb = <<>> /\ lines = <<>>

Search(v, r) ==
    /\ mode = "search" /\ pc = "call"
    /\ pc' = "done"
    /\ variant' = v
    /\ result' = r
    /\ UNCHANGED <<mode, list, keyword, sa, sb, score, lines, parts, again,
                   botVars>>

Search_server  == Search("server", searchProductFuzzy_server(list, keyword))
Search_v3      == Search("v3", searchProductFuzzy_v3(list, keyword))
Search_part000 == Search("part000", searchProductFuzzy_part000(list, keyword))
Search_part001 == Search("part001", searchProductFuzzy_part001(list, keyword))

NextSearch == Search_server \/ Search_v3 \/ Search_part000 \/ Search_part001

SpecSearch == InitSearch /\ [][NextSearch]_vars

InitSim ==
    /\ mode = "sim"
    /\ Idle /\ BotIdle
    /\ sa \in SimStrings
    /\ sb \in SimStrings
    /\ list = <<>> /\ keyword = <<>> /\ lines = <<>>

Similarity ==
    /\ mode = "sim" /\ pc = "call"
    /\ pc' = "done"
    /\ score' = similarity(sa, sb)
    /\ UNCHANGED <<mode, variant, list, keyword, result, sa, sb, lines, parts,
                   again, botVars>>

NextSim == Similarity

SpecSim == InitSim /\ [][NextSim]_vars

InitSplit ==
    /\ mode = "split"
    /\ Idle /\ BotIdle
    /\ lines \in Messages
    /\ list = <<>> /\ keyword = <<>> /\ sa = <<>> /\ sb = <<>>

Split(v, r) ==
    /\ mode = "split" /\ pc = "call"
    /\ pc' = "done"
    /\ variant' = v
    /\ parts' = r
    /\ UNCHANGED <<mode, list, keyword, result, sa, sb, score, lines, again,
                   botVars>>

SplitKeywords == Split("server", splitKeywords(Text(lines)))
CodeKeywords  == Split("part001", codeKeywords_part001(Text(lines)))

NextSplit == SplitKeywords \/ CodeKeywords

SpecSplit == InitSplit /\ [][NextSplit]_vars

\* splitKeywords applied to a single token, then to the first keyword it
\* returned.
InitResplit ==
    /\ mode = "resplit"
    /\ Idle /\ BotIdle
    /\ keyword \in SingleTokens
    /\ list = <<>> /\ sa = <<>> /\ sb = <<>> /\ lines = <<>>

SplitToken ==
    /\ mode = "resplit" /\ pc = "call"
    /\ pc' = "split"
    /\ parts' = splitKeywords(keyword)
    /\ UNCHANGED <<mode, variant, list, keyword, result, sa, sb, score, lines,
                   again, botVars>>

SplitAgain ==
    /\ mode = "resplit" /\ pc = "split"
    /\ parts # <<>>
    /\ pc' = "done"
    /\ again' = splitKeywords(parts[1])
    /\ UNCHANGED <<mode, variant, list, keyword, result, sa, sb, score, lines,
                   parts, botVars>>

NextResplit == SplitToken \/ SplitAgain

SpecResplit == InitResplit /\ [][NextResplit]_vars

-----------------------------------------------------------------------------
(* What the claims speak of, stated apart from the operators above.        *)

SearchDone == mode = "search" /\ pc = "done"
MainVariant == variant \in {"server", "v3"}

\* The normalized keyword of a variant, and the form in which it reads a
\* catalog name.
KeyOf(v, kw)  == IF v = "v3" THEN normalizeText(kw) ELSE toLowerCase(trim(kw))
NameOf(v, n)  == IF v = "v3" THEN normalizeText(n) ELSE toLowerCase(n)
SearchOf(v, l, kw) ==
    IF v = "v3" THEN searchProductFuzzy_v3(l, kw)
    ELSE searchProductFuzzy_server(l, kw)

\* Row i of the catalog has a non-empty code equal to the normalized keyword.
CodeHit(i) ==
    /\ list[i].code # <<>>
    /\ toLowerCase(list[i].code) = KeyOf(variant, keyword)

\* Row p's code or name contains the normalized keyword.
Contains(p) ==
    \/ includes(toLowerCase(p.code), KeyOf(variant, keyword))
    \/ includes(NameOf(variant, p.name), KeyOf(variant, keyword))

\* The similarity score of row i, and the threshold of the variant.
ScoreOf(i) ==
    similarity(NameOf(variant, list[i].name), KeyOf(variant, keyword))
ThresholdOf(v) == IF v = "v3" THEN <<45, 100>> ELSE <<6, 10>>
Admitted == {i \in 1..Len(list) : FracGeq(ScoreOf(i), ThresholdOf(variant))}

\* C1: when a row's non-empty code, lower-cased, equals the normalized
\* keyword, server.js and server_v3.js return the first such row as a
\* single result, whatever other rows contain the keyword.
C1_ExactCodeWins ==
    (SearchDone /\ MainVariant /\ keyword # <<>>) =>
        LET hits == {i \in 1..Len(list) : CodeHit(i)}
        IN  hits # {} =>
                result = Single(list[CHOOSE i \in hits :
                                        \A j \in hits : i <= j])

\* The exact row is not the first row, and the row before it contains the
\* keyword without being an exact hit.
C1_Witness ==
    /\ SearchDone /\ variant = "v3" /\ Len(list) = 2
    /\ CodeHit(2) /\ ~CodeHit(1) /\ Contains(list[1])
    /\ keyword # KeyOf(variant, keyword)
    /\ result = Single(list[2])

\* C2: when some row's code or name contains the normalized keyword, every
\* product that server.js and server_v3.js return contains it: none is there
\* by its similarity score alone.
C2_SimilarityOnlyWhenNoSubstring ==
    (SearchDone /\ MainVariant) =>
        ((\E i \in 1..Len(list) : Contains(list[i])) =>
             \A n \in 1..Len(result.items) : Contains(result.items[n]))

\* One row contains the keyword, the other does not but scores at or above
\* the threshold; only the first is returned.
C2_Witness ==
    /\ SearchDone /\ variant = "server" /\ Len(list) = 2
    /\ KeyOf(variant, keyword) # <<>>
    /\ ~CodeHit(1) /\ ~CodeHit(2)
    /\ Contains(list[2]) /\ ~Contains(list[1]) /\ 1 \in Admitted
    /\ result = Single(list[2])

\* C3: a multi result of any of the four variants holds at least 2 and at
\* most 5 products; null holds none and a single result exactly one.
C3_MultiBetween2And5 ==
    SearchDone =>
        /\ result.kind = "multi" =>
               (Len(result.items) >= 2 /\ Len(result.items) <= 5)
        /\ result.kind = "single" => Len(result.items) = 1
        /\ result.kind = "null" => Len(result.items) = 0

\* C4: server.js and server_v3.js return null for the empty keyword and for
\* every keyword of white space only, whatever the catalog holds.
C4_BlankKeywordIsNull ==
    (SearchDone /\ MainVariant /\ RemoveWhiteSpace(keyword) = <<>>) =>
        result = Null

\* A white-space keyword against a catalog with a row whose code and name
\* are empty and a row whose name holds a space.
C4_Witness ==
    /\ SearchDone /\ variant = "server"
    /\ keyword # <<>> /\ RemoveWhiteSpace(keyword) = <<>>
    /\ \E i \in 1..Len(list) : list[i].code = <<>> /\ list[i].name = <<>>
    /\ \E i \in 1..Len(list) : \E j \in 1..Len(list[i].name) :
           list[i].name[j] \in WhiteSpace
    /\ result = Null

\* Two keywords that differ only in letter case and in white space.
SameButCaseAndSpace(k1, k2) ==
    toLowerCase(RemoveWhiteSpace(k1)) = toLowerCase(RemoveWhiteSpace(k2))

\* The catalog with the white space taken out of every name, and a result
\* read the same way.
StripNames(l) ==
    [i \in 1..Len(l) |-> Row(l[i].code, RemoveWhiteSpace(l[i].name))]
StripResult(r) == [kind |-> r.kind, items |-> StripNames(r.items)]

\* C5: in server.js and server_v3.js two keywords that differ only in letter
\* case and white space give the same outcome, and taking the white space
\* out of the catalog's names does not change the outcome.
C5_CaseAndSpaceInsensitive ==
    (SearchDone /\ MainVariant) =>
        /\ \A k2 \in Keywords :
               SameButCaseAndSpace(keyword, k2) =>
                   SearchOf(variant, list, k2) = result
        /\ StripResult(SearchOf(variant, StripNames(list), keyword))
               = StripResult(result)

\* Row i comes before row j in the order of the similarity tier: a higher
\* score first, catalog order between equal scores.
Before(i, j) ==
    \/ ~FracGeq(ScoreOf(j), ScoreOf(i))
    \/ (FracEq(ScoreOf(i), ScoreOf(j)) /\ i < j)

\* The admitted row that n - 1 admitted rows come before.
Ranked(n) ==
    CHOOSE i \in Admitted :
        Cardinality({j \in Admitted : Before(j, i)}) = n - 1

\* The similarity tier is the one that decides.
SimilarityTier ==
    /\ SearchDone /\ MainVariant
    /\ KeyOf(variant, keyword) # <<>>
    /\ \A i \in 1..Len(list) : ~CodeHit(i) /\ ~Contains(list[i])

\* C6: when no row contains the keyword, the candidates are exactly the rows
\* scoring at or above the threshold (0.6 in server.js, 0.45 in
\* server_v3.js), by score descending and in catalog order between equal
\* scores; none gives null, one gives that row, more give the first 5.
C6_SimilarityTierOrder ==
    SimilarityTier =>
        LET n == Cardinality(Admitted)
        IN  /\ n = 0 => result = Null
            /\ n = 1 => result = Single(list[Ranked(1)])
            /\ n >= 2 =>
                   result = Multi([m \in 1..(IF n < 5 THEN n ELSE 5) |->
                                      list[Ranked(m)]])

\* Two rows are admitted, the first of them with a score of exactly the
\* threshold and the second with a higher one, so the sort exchanges them.
C6_Witness ==
    /\ SimilarityTier /\ Len(list) = 2 /\ Admitted = {1, 2}
    /\ FracEq(ScoreOf(1), ThresholdOf(variant))
    /\ ~FracGeq(ScoreOf(1), ScoreOf(2))
    /\ result = Multi(<<list[2], list[1]>>)

-----------------------------------------------------------------------------
(* The edit distance as the claim defines it: the least number of single-  *)
(* character insertions, deletions and substitutions, found by a search    *)
(* over the strings themselves.                                            *)

EditAlphabet == {"a", "b"}

Deletions(s) ==
    {SubSeq(s, 1, i - 1) \o SubSeq(s, i + 1, Len(s)) : i \in 1..Len(s)}
Insertions(s) ==
    {SubSeq(s, 1, i) \o <<c>> \o SubSeq(s, i + 1, Len(s)) :
         i \in 0..Len(s), c \in EditAlphabet}
Substitutions(s) ==
    {[s EXCEPT ![i] = c] : i \in 1..Len(s), c \in EditAlphabet}

\* The strings one edit away from a string of S, no longer than cap.
OneEdit(S, cap) ==
    {t \in UNION {Deletions(s) \cup Insertions(s) \cup Substitutions(s) :
                     s \in S} : Len(t) <= cap}

\* The least n such that b is n edits away from a string of S.
RECURSIVE EditSteps(_, _, _)
EditSteps(S, b, cap) ==
    IF b \in S THEN 0 ELSE 1 + EditSteps(S \cup OneEdit(S, cap), b, cap)

EditDistance(a, b) ==
    EditSteps({a}, b, (IF Len(a) < Len(b) THEN Len(b) ELSE Len(a)) + 1)

SimDone == mode = "sim" /\ pc = "done"

\* C7: similarity(a, b) is (maxLen - d) / maxLen for the edit distance d and
\* the longer length maxLen, 1 for two empty strings; it lies in [0, 1], is
\* 1 for equal strings and does not depend on the order of its arguments.
C7_SimilarityIsEditRatio ==
    SimDone =>
        LET maxLen == IF Len(sa) < Len(sb) THEN Len(sb) ELSE Len(sa)
            d      == EditDistance(sa, sb)
        IN  /\ score[2] > 0
            /\ IF maxLen = 0 THEN FracEq(score, <<1, 1>>)
               ELSE FracEq(score, <<maxLen - d, maxLen>>)
            /\ FracGeq(score, <<0, 1>>) /\ FracGeq(<<1, 1>>, score)
            /\ sa = sb => FracEq(score, <<1, 1>>)
            /\ FracEq(similarity(sb, sa), score)

\* Two different strings of different lengths, the shorter one first, at a
\* distance that needs an insertion and a substitution.
C7_Witness ==
    /\ SimDone
    /\ Len(sa) = 2 /\ Len(sb) = 3
    /\ EditDistance(sa, sb) = 2
    /\ score = <<1, 3>>

-----------------------------------------------------------------------------
(* The webhook.                                                            *)

\* The webhook and its event handlers.  A handler runs from one await to
\* the next in one step; hpc is the await it is at: "profile"
\* (getProfileSafe), "fetch" (fetchProducts), "append" (values.append),
\* "reply" (client.replyMessage), then "done" (returned) or "rejected" (an
\* awaited call threw).  Each awaited call succeeds or fails.

BotRow(c, n, p, s, eta) ==
    [code |-> c, name |-> n, price |-> p, stock |-> s, restock_eta |-> eta]

\* The products tab, as fetchProducts reads it, before and after an edit
\* of the prices.
SheetA ==
    << BotRow(<<"A", "1">>, <<"a", "b">>, 420, <<"you">>, <<>>),
       BotRow(<<"A", "2">>, <<"a", "c">>, 100, <<>>, <<"d">>) >>
SheetB ==
    << BotRow(<<"A", "1">>, <<"a", "b">>, 450, <<"you">>, <<>>),
       BotRow(<<"A", "2">>, <<"a", "c">>, 120, <<>>, <<"d">>) >>
Sheets == {SheetA, SheetB}

Users == {"U1", "U2"}

Event(type, userId, text) == [type |-> type, userId |-> userId, text |-> text]

Cha == PriceTokens[1]
Ku  == StockTokens[1]

\* The events that requests are made of: text messages and one event of
\* another type.
EventList ==
    << Event("message", "U1", Cha \o <<"sp", "a", "b">>),
       Event("message", "U1", Ku \o <<"sp", "a", "c">>),
       Event("message", "U2", Cha \o <<"sp">> \o Ku \o <<"sp", "a", "b">>),
       Event("message", "U1",
             <<"a", "b", "nl", "z", "z", "nl", "a", "comma", "a", "c">>),
       Event("message", "U1", Cha),
       Event("message", "U1",
             OrderPrefix \o <<"sp", "a", "b", "sp", "x", "sp", "2">>),
       Event("message", "U1",
             OrderPrefix \o <<"sp", "a", "b", "sp", "x", "sp", "0">>),
       Event("message", "U1", OrderPrefix \o <<"sp", "a", "sp", "x", "1">>),
       Event("message", "U1", OrderPrefix \o <<"z", "z", "star", "1">>),
       Event("message", "U1", CodeToken \o <<"sp", "a">>),
       Event("follow", "U1", <<>>) >>

\* The elements of s at the indices of the set S, in the order of s.
RECURSIVE Pick(_, _)
Pick(s, S) ==
    IF S = {} THEN <<>>
    ELSE LET i == CHOOSE x \in S : \A y \in S : x <= y
         IN  <<s[i]>> \o Pick(s, S \ {i})

EventSet == {EventList[i] : i \in 1..Len(EventList)}

Variants == {"server", "v3"}

\* profile.displayName: a name, or '' when the lookup failed.
DisplayNames == {<<"n">>, <<>>}

\* req.body.events: up to MaxEvents different events.
Requests ==
    {Pick(EventList, S) : S \in {T \in SUBSET (1..Len(EventList)) :
                                    Cardinality(T) <= MaxEvents}}

\* event.type !== 'message' || event.message.type !== 'text'
IsText(ev) == ev.type = "message"

NoProfile == [userId |-> "", displayName |-> <<>>]
NoCall ==
    [fn |-> "-", keyword |-> <<>>, qty |-> 0, profile |-> NoProfile,
     text |-> <<>>, row |-> <<>>, hit |-> <<>>, error |-> "-"]

InitBot ==
    /\ mode = "bot"
    /\ pc = "call"
    /\ variant \in Variants
    /\ signatureOk \in BOOLEAN
    /\ events \in Requests
    /\ sheet = SheetA
    /\ hpc = [e \in 1..Len(events) |-> "none"]
    /\ call = [e \in 1..Len(events) |-> NoCall]
    /\ fetches = [e \in 1..Len(events) |-> 0]
    /\ profiles = {}
    /\ orders = <<>> /\ replies = <<>>
    /\ userLastKeywords = [u \in Users |-> <<>>]
    /\ status = 0
    /\ process = "running"
    /\ list = <<>> /\ keyword = <<>> /\ result = Null
    /\ sa = <<>> /\ sb = <<>> /\ score = <<1, 1>>
    /\ lines = <<>> /\ parts = <<>> /\ again = <<>>

\* What no step of the webhook changes.
fixedVars == <<mode, variant, list, keyword, result, sa, sb, score, lines, parts,
            again, signatureOk, events>>

\* The request fails validateSignature: 401, and the handler returns.
WebhookReject ==
    /\ mode = "bot" /\ pc = "call"
    /\ ~signatureOk
    /\ status' = 401
    /\ pc' = "done"
    /\ UNCHANGED <<fixedVars, sheet, hpc, call, fetches, profiles, orders,
                   replies, userLastKeywords, process>>

\* events.map(handleEvent): each handler runs to its first await; a handler
\* of an event that is no text message returns at once.
WebhookAccept ==
    /\ mode = "bot" /\ pc = "call"
    /\ signatureOk
    /\ pc' = "handling"
    /\ hpc' = [e \in 1..Len(events) |->
                  IF IsText(events[e]) THEN "profile" ELSE "done"]
    /\ profiles' = {e \in 1..Len(events) : IsText(events[e])}
    /\ UNCHANGED <<fixedVars, sheet, call, fetches, orders, replies,
                   userLastKeywords, status, process>>

Handling(e) ==
    /\ mode = "bot" /\ pc = "handling" /\ process = "running"
    /\ e \in 1..Len(events)

handleEvent(v, textRaw) ==
    IF v = "server" THEN handleEvent_server(textRaw)
    ELSE handleEvent_v3(textRaw)

\* The call c that handleEvent routes to, as it stands at its first await.
\* A call that replies without fetching (the help text, the answer to a
\* quantity that is not positive) has its text already.  Only replyOrder
\* reads the profile.
callOf(c, ev, displayName) ==
    LET text == IF c.fn = "replyText" THEN <<HelpLine>>
                ELSE IF c.fn = "replyOrder" /\ ~replyOrder_accepts(c.qty)
                THEN <<QtyLine>>
                ELSE <<>>
        profile == IF c.fn = "replyOrder" /\ text = <<>>
                   THEN [userId |-> ev.userId, displayName |-> displayName]
                   ELSE NoProfile
    IN  [NoCall EXCEPT !.fn = c.fn, !.keyword = c.keyword, !.qty = c.qty,
                       !.profile = profile, !.text = text]

\* handleEvent from the return of getProfileSafe to its next await: the
\* call it makes.
startCall(v, ev, displayName) ==
    callOf(handleEvent(v, trim(ev.text)), ev, displayName)

\* startCall, tabulated over the events of the model.
StartCalls ==
    [v \in Variants, ev \in EventSet, displayName \in DisplayNames |->
        startCall(v, ev, displayName)]

\* getProfileSafe returns the profile or, when the lookup failed, the user
\* id with an empty display name; handleEvent then runs to its next await.
GetProfile(e) ==
    /\ Handling(e) /\ hpc[e] = "profile"
    /\ \E displayName \in DisplayNames :
       \E c \in {StartCalls[variant, events[e], displayName]} :
          /\ call' = [call EXCEPT ![e] = c]
          /\ hpc' = [hpc EXCEPT ![e] =
                        IF c.text # <<>> THEN "reply" ELSE "fetch"]
          /\ fetches' = [fetches EXCEPT ![e] =
                            IF c.text # <<>> THEN @ ELSE @ + 1]
    /\ UNCHANGED <<fixedVars, pc, sheet, profiles, orders, replies,
                   userLastKeywords, status, process>>

\* What the reply function called has once the list is fetched.
afterFetch(v, c, l, orderId) ==
    IF c.fn = "handleMultiQuery"
    THEN Outcome(handleMultiQuery(l, c.keyword), <<>>, <<>>)
    ELSE IF c.fn = "replyOrder"
    THEN replyOrder(v, l, c.keyword, c.qty, c.profile, orderId)
    ELSE IF v = "server" /\ c.fn = "replyPrice"
    THEN Outcome(replyPrice_server(l, c.keyword), <<>>, <<>>)
    ELSE IF v = "server"
    THEN Outcome(replyStock_server(l, c.keyword), <<>>, <<>>)
    ELSE lookup_v3(l, c.keyword, c.fn)

\* afterFetch, tabulated over the events, the sheets and the order ids of
\* the model.
Outcomes ==
    [v \in Variants, ev \in EventSet, displayName \in DisplayNames,
     l \in Sheets, orderId \in 1..Len(EventList) |->
        afterFetch(v, StartCalls[v, ev, displayName], l, orderId)]

\* fetchProducts returned the rows of the sheet: the reply function runs to
\* its next await, the append of an order or the reply.
FetchOk(e) ==
    /\ Handling(e) /\ hpc[e] = "fetch"
    /\ \E o \in {Outcomes[variant, events[e], call[e].profile.displayName,
                           sheet, e]} :
           /\ call' = [call EXCEPT ![e].text = o.text, ![e].row = o.row,
                                   ![e].hit = o.hit]
           /\ userLastKeywords' =
                  IF o.hit # <<>>
                  THEN setLastKeywords(userLastKeywords, events[e].userId,
                                       o.hit)
                  ELSE userLastKeywords
           /\ hpc' = [hpc EXCEPT ![e] =
                         IF o.row # <<>> THEN "append" ELSE "reply"]
    /\ UNCHANGED <<fixedVars, pc, sheet, fetches, profiles, orders, replies,
                   status, process>>

\* An awaited call threw: nothing catches it, handleEvent rejects.  At the
\* first rejection Promise.all rejects, and so does the route handler, which
\* nothing catches either: no response is sent, and the runtime either goes
\* on or ends the process on the unhandled rejection.
Reject(e, at) ==
    /\ Handling(e) /\ hpc[e] = at
    /\ hpc' = [hpc EXCEPT ![e] = "rejected"]
    /\ call' = [call EXCEPT ![e].error = at]
    /\ process' \in IF \E o \in 1..Len(events) : hpc[o] = "rejected"
                    THEN {process} ELSE {"running", "crashed"}
    /\ UNCHANGED <<fixedVars, pc, sheet, fetches, profiles, orders, replies,
                   userLastKeywords, status>>

FetchFail(e)  == Reject(e, "fetch")
AppendFail(e) == Reject(e, "append")
ReplyFail(e)  == Reject(e, "reply")

\* sheets.spreadsheets.values.append returned: the row is on the orders
\* tab, replyOrder calls replyText.
AppendOk(e) ==
    /\ Handling(e) /\ hpc[e] = "append"
    /\ orders' = orders \o call[e].row
    /\ hpc' = [hpc EXCEPT ![e] = "reply"]
    /\ UNCHANGED <<fixedVars, pc, sheet, call, fetches, profiles, replies,
                   userLastKeywords, status, process>>

\* client.replyMessage returned: the text is sent, handleEvent returns.
ReplyOk(e) ==
    /\ Handling(e) /\ hpc[e] = "reply"
    /\ replies' = Append(replies, [token |-> e, text |-> call[e].text])
    /\ hpc' = [hpc EXCEPT ![e] = "done"]
    /\ UNCHANGED <<fixedVars, pc, sheet, call, fetches, profiles, orders,
                   userLastKeywords, status, process>>

\* The mutant of allFulfilled: Promise.all is not awaited.
allFulfilled_notAwaited(h) == h = h

\* await Promise.all(...) returns once every handler has returned.
allFulfilled(h) == \A e \in DOMAIN h : h[e] = "done"

Respond ==
    /\ mode = "bot" /\ pc = "handling" /\ process = "running"
    /\ allFulfilled(hpc)
    /\ status' = 200
    /\ pc' = "done"
    /\ UNCHANGED <<fixedVars, sheet, hpc, call, fetches, profiles, orders,
                   replies, userLastKeywords, process>>

\* Somebody edits the products tab while a handler has still to fetch it.
EditSheet ==
    /\ mode = "bot" /\ pc = "handling" /\ process = "running"
    /\ \E e \in 1..Len(events) : hpc[e] \in {"profile", "fetch"}
    /\ sheet = SheetA
    /\ sheet' = SheetB
    /\ UNCHANGED <<fixedVars, pc, hpc, call, fetches, profiles, orders, replies,
                   userLastKeywords, status, process>>

NextBot ==
    \/ WebhookReject
    \/ WebhookAccept
    \/ \E e \in 1..Len(events) :
           \/ GetProfile(e)
           \/ FetchOk(e) \/ FetchFail(e)
           \/ AppendOk(e) \/ AppendFail(e)
           \/ ReplyOk(e) \/ ReplyFail(e)
    \/ Respond
    \/ EditSheet

SpecBot == InitBot /\ [][NextBot]_vars

-----------------------------------------------------------------------------
(* The claims on the keyword splitter.                                     *)

SplitDone(v) == mode = "split" /\ pc = "done" /\ variant = v

\* The names of the lines from line n on, each trimmed.
NamesFrom(n) == [i \in 1..(Len(lines) - n + 1) |-> trim(lines[i + n - 1].name)]

\* A string holds the character c; a string holds an intent token.
Has(s, c) == \E i \in 1..Len(s) : s[i] = c
HasIntentToken(s) ==
    \E i \in 1..Len(s) :
        tokenLenAt(s, PriceTokens, i) + tokenLenAt(s, StockTokens, i) > 0

\* C8: for a message whose every line is an intent token followed by a
\* product name, splitKeywords returns one keyword per line, the i-th being
\* the i-th line's product name.
C8_OneKeywordPerIntentLine ==
    (/\ SplitDone("server")
     /\ \A i \in 1..Len(lines) :
            lines[i].intent # <<>> /\ lines[i].name \in PlainNames)
        => parts = NamesFrom(1)

\* The separator class of the claim: the line breaks that are unified, white
\* space, the two commas, the ideographic comma and the two semicolons.
ClaimedSeparators ==
    {"nl", "cr", "ls", "ps", "sp", "isp",
     "comma", "fcomma", "dun", "semi", "fsemi"}

\* C9 as stated: no keyword that splitKeywords returns holds a character of
\* the separator class.
C9_NoSeparatorInKeyword ==
    SplitDone("server") =>
        \A n \in 1..Len(parts) : \A c \in ClaimedSeparators : ~Has(parts[n], c)

\* C9 as amended: no keyword that splitKeywords returns holds a line feed, a
\* comma (ASCII or full-width), an ideographic comma or a semicolon (ASCII
\* or full-width), and none is empty or begins or ends with white space;
\* the keywords that replyCodeOnly of unnamed/part_001 splits off hold no
\* character of the whole separator class.
C9_SplitCharsOnly ==
    /\ SplitDone("server") =>
           \A n \in 1..Len(parts) :
               /\ \A c \in {"nl", "comma", "fcomma", "dun", "semi", "fsemi"} :
                      ~Has(parts[n], c)
               /\ parts[n] # <<>>
               /\ parts[n][1] \notin WhiteSpace
               /\ parts[n][Len(parts[n])] \notin WhiteSpace
    /\ SplitDone("part001") =>
           \A n \in 1..Len(parts) :
               /\ \A c \in ClaimedSeparators : ~Has(parts[n], c)
               /\ parts[n] # <<>>

\* A message with a semicolon and a line feed, split at both, one of whose
\* keywords keeps a U+2028 inside and another a space.
C9_Witness ==
    /\ SplitDone("server")
    /\ Has(Text(lines), "semi") /\ Has(Text(lines), "nl")
    /\ \E n \in 1..Len(parts) : Has(parts[n], "ls")
    /\ \E n \in 1..Len(parts) : Has(parts[n], "sp")
    /\ Len(parts) = 4

\* A product name of the claim: not blank, with no split character and no
\* intent token in it.
CleanName(n) ==
    /\ trim(n) # <<>>
    /\ \A c \in {"nl", "comma", "fcomma", "dun", "semi", "fsemi"} : ~Has(n, c)
    /\ ~HasIntentToken(n)

\* The first line is an intent token alone, the other lines hold no leading
\* intent token.
IntentLineThenNames ==
    /\ Len(lines) >= 2
    /\ lines[1].intent # <<>>
    /\ lines[1].gap = <<>> /\ lines[1].name = <<>>
    /\ \A i \in 2..Len(lines) : lines[i].intent = <<>>

\* C10: for a message whose first line is an intent token alone and whose
\* other lines are product names (white space inside them allowed; a name
\* holds no split character and no intent token), splitKeywords returns
\* those lines in order, duplicates kept, each trimmed and otherwise intact;
\* and it never returns an empty string.
C10_LinesAfterIntentLine ==
    SplitDone("server") =>
        /\ \A n \in 1..Len(parts) : parts[n] # <<>>
        /\ (/\ IntentLineThenNames
            /\ \A i \in 2..Len(lines) : CleanName(lines[i].name))
               => parts = NamesFrom(2)

\* The intent line, then the same name with a space inside twice.
C10_Witness ==
    /\ SplitDone("server")
    /\ Len(lines) = 3
    /\ lines[1].intent # <<>> /\ lines[1].gap = <<>> /\ lines[1].name = <<>>
    /\ lines[2].intent = <<>> /\ lines[3] = lines[2]
    /\ Has(lines[2].name, "sp") /\ lines[2].name = trim(lines[2].name)
    /\ parts = <<lines[2].name, lines[2].name>>

\* What is left of a single token once one leading price token and then one
\* leading stock token, where present, are taken off.
StripLeading(s, tokens) ==
    SubSeq(s, tokenLenAt(s, tokens, 1) + 1, Len(s))
Remainder(x) == StripLeading(StripLeading(x, PriceTokens), StockTokens)
BeginsWithIntent(s) ==
    s # <<>> /\ tokenLenAt(s, PriceTokens, 1) + tokenLenAt(s, StockTokens, 1) > 0

\* C11 as stated: for every non-empty token x with no separator character,
\* an x that begins with or equals an intent token included,
\* splitKeywords(x) is not empty and splitKeywords of its first keyword is
\* that keyword alone.
C11_IdempotentOnTokens ==
    mode = "resplit" =>
        /\ pc # "call" => parts # <<>>
        /\ pc = "done" => again = <<parts[1]>>

\* C11 as amended: the same for every such x that, once one leading price
\* token and then one leading stock token are taken off, leaves a rest that
\* is not empty and does not begin with an intent token.
C11_IdempotentOnStrippedTokens ==
    (/\ mode = "resplit"
     /\ Remainder(keyword) # <<>>
     /\ ~BeginsWithIntent(Remainder(keyword)))
        => /\ pc # "call" => parts # <<>>
           /\ pc = "done" => again = <<parts[1]>>

\* A token that begins with a price token and a stock token, split twice:
\* both tokens are stripped the first time and nothing the second time.
C11_Witness ==
    /\ mode = "resplit" /\ pc = "done"
    /\ tokenLenAt(keyword, PriceTokens, 1) > 0
    /\ Len(Remainder(keyword)) < Len(StripLeading(keyword, PriceTokens))
    /\ parts = <<Remainder(keyword)>>
    /\ again = parts

-----------------------------------------------------------------------------
(* The claims on the webhook and the event handlers.                       *)

Bot == mode = "bot"
Handlers == 1..Len(events)

\* The handler of event e called the function fn.
Called(e, fn) == Bot /\ call[e].fn = fn

\* The handler of event e has called client.replyMessage.
Replying(e) == hpc[e] \in {"reply", "done"}

\* The replies sent to event e, and the number of them.
RepliesTo(e) == {i \in 1..Len(replies) : replies[i].token = e}

\* The keywords of the text of an event, its intent flags, and what a
\* keyword resolves to in a snapshot of the sheet, each tabulated.
KeywordsOf == [ev \in EventSet |-> splitKeywords(trim(ev.text))]
WantsOf ==
    [ev \in EventSet |->
        [price |-> hasIntent(trim(ev.text), PriceTokens),
         stock |-> hasIntent(trim(ev.text), StockTokens)]]
QueryKeywords ==
    UNION {{KeywordsOf[ev][i] : i \in 1..Len(KeywordsOf[ev])} : ev \in EventSet}
        \cup {StartCalls[v, ev, <<>>].keyword : v \in Variants, ev \in EventSet}
FoundBy ==
    [v \in Variants, l \in Sheets, kw \in QueryKeywords |->
        IF v = "server" THEN searchProductFuzzy_server(l, kw)
        ELSE searchProductFuzzy_v3(l, kw)]

\* The blocks of a text: its lines between the empty lines.
RECURSIVE SplitBlocks(_, _)
SplitBlocks(t, cur) ==
    IF t = <<>> THEN <<cur>>
    ELSE IF Head(t) = BlankLine
    THEN <<cur>> \o SplitBlocks(Tail(t), <<>>)
    ELSE SplitBlocks(Tail(t), Append(cur, Head(t)))

HasLine(b, t) == \E j \in 1..Len(b) : b[j].t = t

\* Block b answers keyword kw, resolved to r: a not-found block quotes the
\* keyword, a block of several matches lists them, the block of one match
\* names it and shows only its price and stock.
BlockAbout(b, r, kw) ==
    IF r.kind = "null" THEN b = <<NotFoundLine(kw)>>
    ELSE IF r.kind = "multi"
    THEN /\ Len(b) = Len(r.items) + 2
         /\ b[1] = MultiHeadLine
         /\ \A j \in 1..Len(r.items) : b[j + 1].t = "cand"
    ELSE /\ b # <<>>
         /\ b[1] = TitleLine(r.items[1].name)
         /\ \A j \in 2..Len(b) :
                \/ b[j] = PriceLine(r.items[1].price)
                \/ b[j].t = "stock"

\* C12: a call of handleMultiQuery fetches the catalog once and sends at
\* most one reply, exactly one when it returns; the text is the prompt when
\* the message holds no keyword, and otherwise one block per keyword, in
\* the order of the keywords, an empty line between two blocks, every block
\* resolved in the same snapshot of the sheet, a not-found block quoting
\* its keyword.
C12_OneFetchOneReply ==
    \A e \in Handlers :
        Called(e, "handleMultiQuery") =>
            /\ fetches[e] = 1
            /\ Cardinality(RepliesTo(e)) <= 1
            /\ hpc[e] = "done" =>
                   \E i \in RepliesTo(e) : replies[i].text = call[e].text
            /\ Replying(e) =>
                   LET kws == KeywordsOf[events[e]]
                       blocks == SplitBlocks(call[e].text, <<>>)
                   IN  IF kws = <<>> THEN call[e].text = <<PromptLine>>
                       ELSE /\ Len(blocks) = Len(kws)
                            /\ \E l \in Sheets :
                                   \A i \in 1..Len(kws) :
                                       BlockAbout(blocks[i],
                                                  FoundBy["server", l, kws[i]],
                                                  kws[i])

\* A message of four keywords answered in four blocks that show the prices
\* of the edited sheet, next to a message with no keyword answered with the
\* prompt.
C12_Witness ==
    /\ Bot /\ Len(events) = 2
    /\ \E e \in Handlers :
           /\ Called(e, "handleMultiQuery") /\ hpc[e] = "done"
           /\ Len(KeywordsOf[events[e]]) = 4
           /\ Len(SplitBlocks(replies[CHOOSE i \in RepliesTo(e) : TRUE].text,
                               <<>>)) = 4
           /\ \E j \in 1..Len(call[e].text) :
                  call[e].text[j] = PriceLine(SheetB[2].price)
           /\ \E j \in 1..Len(call[e].text) :
                  call[e].text[j] = NotFoundLine(<<"z", "z">>)
    /\ \E e \in Handlers :
           /\ Called(e, "handleMultiQuery") /\ hpc[e] = "done"
           /\ KeywordsOf[events[e]] = <<>>
           /\ \E i \in RepliesTo(e) : replies[i].text = <<PromptLine>>

\* Keyword kw resolves to one product, in each snapshot of the sheet.
OneMatch(v, kw) == \A l \in Sheets : FoundBy[v, l, kw].kind = "single"

\* C13: in the text of handleMultiQuery the block of a keyword with a
\* single match holds the title line with the product name, holds the price
\* line iff wantsPrice is set or neither flag is, and holds the stock line
\* iff wantsStock is set or neither flag is.
C13_LinesByFlags ==
    \A e \in Handlers :
        (Called(e, "handleMultiQuery") /\ Replying(e)) =>
            LET kws == KeywordsOf[events[e]]
                wants == WantsOf[events[e]]
                neither == ~wants.price /\ ~wants.stock
                blocks == SplitBlocks(call[e].text, <<>>)
            IN  \A i \in 1..Len(kws) :
                    OneMatch("server", kws[i]) =>
                        /\ i <= Len(blocks)
                        /\ HasLine(blocks[i], "title")
                        /\ HasLine(blocks[i], "price")
                               <=> (wants.price \/ neither)
                        /\ HasLine(blocks[i], "stock")
                               <=> (wants.stock \/ neither)

\* A message with both intent tokens and one with none, each answered with a
\* block that holds the price line and the stock line.
C13_Witness ==
    /\ Bot
    /\ \E e \in Handlers :
           /\ Called(e, "handleMultiQuery") /\ hpc[e] = "done"
           /\ WantsOf[events[e]].price /\ WantsOf[events[e]].stock
           /\ HasLine(call[e].text, "price") /\ HasLine(call[e].text, "stock")
    /\ \E e \in Handlers :
           /\ Called(e, "handleMultiQuery") /\ hpc[e] = "done"
           /\ ~WantsOf[events[e]].price /\ ~WantsOf[events[e]].stock
           /\ OneMatch("server", KeywordsOf[events[e]][1])
           /\ HasLine(SplitBlocks(call[e].text, <<>>)[1], "price")
           /\ HasLine(SplitBlocks(call[e].text, <<>>)[1], "stock")

\* The text of the event is the price token, a space and a name that
\* resolves to one product.
PriceQuery(ev) ==
    /\ IsText(ev)
    /\ OccursAt(ev.text, Cha \o <<"sp">>, 1)
    /\ LET name == SubSeq(ev.text, Len(Cha) + 2, Len(ev.text))
       IN  /\ name \in QueryKeywords
           /\ \A v \in Variants : OneMatch(v, name)

\* C14: a price query is answered with a text that holds the price line and
\* the stock line of the product, in server.js and in server_v3.js.
C14_PriceQueryShowsStock ==
    \A e \in Handlers :
        (Bot /\ PriceQuery(events[e]) /\ Replying(e)) =>
            /\ HasLine(call[e].text, "price")
            /\ HasLine(call[e].text, "stock")

\* The rows of the orders tab appended for event e.
RowsOf(e) == {i \in 1..Len(orders) : orders[i].orderId = e}

\* The text is the confirmation of an order.
IsConfirmation(text) == text # <<>> /\ text[1].t = "received"

\* C15: replyOrder appends a row iff the quantity is positive and the
\* keyword resolves to one product: at most one row, with the code, name
\* and price of that product, the quantity and the status NEW; a call that
\* got as far as its reply with no row had a quantity that is not positive
\* or a keyword with no or several matches; the confirmation is sent only
\* once the row is appended, and never after no match, several matches or a
\* failed append.
C15_AppendThenConfirm ==
    \A e \in Handlers :
        Called(e, "replyOrder") =>
            LET c == call[e]
                found(l) == FoundBy[variant, l, c.keyword]
            IN  /\ Cardinality(RowsOf(e)) <= 1
                /\ \A i \in RowsOf(e) :
                       /\ c.qty > 0
                       /\ \E l \in Sheets :
                              /\ found(l).kind = "single"
                              /\ orders[i].code = found(l).items[1].code
                              /\ orders[i].name = found(l).items[1].name
                              /\ orders[i].price = found(l).items[1].price
                       /\ orders[i].qty = c.qty
                       /\ orders[i].status = "NEW"
                /\ (Replying(e) /\ RowsOf(e) = {}) =>
                       \/ c.qty <= 0
                       \/ \E l \in Sheets : found(l).kind # "single"
                /\ (Replying(e) /\ IsConfirmation(c.text)) => RowsOf(e) # {}
                /\ \A i \in RepliesTo(e) :
                       IsConfirmation(replies[i].text) => RowsOf(e) # {}
                /\ c.error = "append" => RepliesTo(e) = {} /\ RowsOf(e) = {}

\* An order confirmed after its row was appended, next to an order of a
\* keyword with several matches, answered and with no row.
C15_Witness ==
    /\ Bot
    /\ \E e \in Handlers :
           /\ Called(e, "replyOrder") /\ hpc[e] = "done"
           /\ RowsOf(e) # {}
           /\ \E i \in RepliesTo(e) : IsConfirmation(replies[i].text)
    /\ \E e \in Handlers :
           /\ Called(e, "replyOrder") /\ hpc[e] = "done"
           /\ call[e].qty > 0
           /\ \A l \in Sheets : FoundBy[variant, l, call[e].keyword].kind = "multi"
           /\ RowsOf(e) = {}
           /\ \E i \in RepliesTo(e) : ~IsConfirmation(replies[i].text)

\* What textRaw.match finds in the text of an event, tabulated.
OrderOf == [ev \in EventSet |-> orderMatch(trim(ev.text))]

\* The event is an order message with a quantity that is not positive.
BadQuantity(ev) ==
    /\ IsText(ev)
    /\ OrderOf[ev].matched
    /\ parseInt(OrderOf[ev].qty) <= 0

\* C16: an order message with a quantity that is not positive (the order
\* expression takes digits only, so the quantity is 0) is answered with the
\* message on the quantity; its handler fetches nothing, appends nothing,
\* and rejects only when the reply call itself fails.
C16_BadQuantityLocal ==
    \A e \in Handlers :
        (Bot /\ BadQuantity(events[e])) =>
            /\ fetches[e] = 0
            /\ RowsOf(e) = {}
            /\ hpc[e] \notin {"fetch", "append"}
            /\ Replying(e) => call[e].text = <<QtyLine>>
            /\ \A i \in RepliesTo(e) : replies[i].text = <<QtyLine>>
            /\ hpc[e] = "done" => RepliesTo(e) # {}
            /\ hpc[e] = "rejected" => call[e].error = "reply"

\* The order of quantity 0 answered, nothing fetched, nothing appended.
C16_Witness ==
    /\ Bot /\ status = 200
    /\ \E e \in Handlers :
           /\ BadQuantity(events[e])
           /\ hpc[e] = "done"
           /\ fetches[e] = 0 /\ orders = <<>>
           /\ \E i \in RepliesTo(e) : replies[i].text = <<QtyLine>>

\* Nothing is left to run for the request.
Settled ==
    /\ Bot /\ pc # "call"
    /\ \/ process = "crashed"
       \/ \A e \in Handlers : hpc[e] \in {"done", "rejected"}

\* C17: when the fetch, the append or the reply call of a handler fails,
\* the call is not made again, handleEvent rejects, and once nothing is left
\* to run the user has a reply and the request has its response.
C17_FallbackAfterFailure ==
    \A e \in Handlers :
        (Bot /\ call[e].error # "-") =>
            /\ hpc[e] = "rejected"
            /\ fetches[e] <= 1
            /\ Settled => RepliesTo(e) # {} /\ status = 200

\* The lookups of user u that ended in a single match.
HitsOf(u) ==
    {e \in Handlers : events[e].userId = u /\ call[e].hit # <<>>}

\* The entry of the recency cache for an item.
Entry(item) == [code |-> item.code, name |-> item.name]

Min(a, b) == IF a < b THEN a ELSE b

\* C18 as stated: the list of a user holds the items of the user's
\* single-match lookups, accumulated, the oldest dropped beyond 10.
C18_Accumulates ==
    Bot =>
        \A u \in Users :
            /\ Len(userLastKeywords[u]) = Min(LastCap, Cardinality(HitsOf(u)))
            /\ Cardinality(HitsOf(u)) <= LastCap =>
                   \A e \in HitsOf(u) :
                       \E i \in 1..Len(userLastKeywords[u]) :
                           userLastKeywords[u][i] = Entry(call[e].hit[1])

\* The lookups of user u that end in a single match in this step.
NewHits(u) ==
    {e \in Handlers : /\ events[e].userId = u
                      /\ call[e].hit = <<>> /\ call'[e].hit # <<>>}

\* The lookup of event e gets its catalog in this step.
LookupReturns(e) ==
    /\ variant = "v3"
    /\ call[e].fn \in {"replyPrice", "replyStock", "replyCodeOnly"}
    /\ hpc[e] = "fetch" /\ hpc'[e] = "reply"

\* C18, amended: a single-match lookup of replyPrice, replyStock or
\* replyCodeOnly replaces the list of the user by the one matched item;
\* nothing accumulates and nothing is evicted, and a list never has more
\* than 10 items; a lookup with no match or several matches, and every
\* other step, leaves every list as it is.
C18_ReplacedByLastHit ==
    [][Bot =>
        /\ \A u \in Users :
               /\ Len(userLastKeywords'[u]) <= LastCap
               /\ IF NewHits(u) = {}
                  THEN userLastKeywords'[u] = userLastKeywords[u]
                  ELSE \E e \in NewHits(u) :
                           /\ Len(call'[e].hit) = 1
                           /\ userLastKeywords'[u] =
                                  <<Entry(call'[e].hit[1])>>
        /\ \A e \in Handlers :
               LET found == FoundBy[variant, sheet, call[e].keyword]
               IN  /\ e \in NewHits(events[e].userId) =>
                          /\ LookupReturns(e)
                          /\ found.kind = "single"
                          /\ call'[e].hit = <<Entry(found.items[1])>>
                   /\ (LookupReturns(e) /\ found.kind = "single") =>
                          e \in NewHits(events[e].userId)
    ]_vars

\* A user with two single-match lookups of different items and a list of
\* one item.
C18_Witness ==
    /\ Bot
    /\ \E u \in Users :
           /\ \E e, f \in HitsOf(u) : call[e].hit[1] # call[f].hit[1]
           /\ Len(userLastKeywords[u]) = 1
           /\ \E e \in HitsOf(u) :
                  userLastKeywords[u] = <<Entry(call[e].hit[1])>>

\* C19: a request whose signature fails gets 401 at most, and no profile
\* lookup, fetch, append or reply is made for it, no handler of it starts;
\* 401 is sent to such requests only, and 200 only to a request with a
\* valid signature once every handler has returned.
C19_SignatureGate ==
    Bot =>
        /\ ~signatureOk =>
               /\ status \in {0, 401}
               /\ pc = "done" => status = 401
               /\ profiles = {}
               /\ \A e \in Handlers :
                      /\ hpc[e] = "none"
                      /\ fetches[e] = 0
                      /\ call[e] = NoCall
               /\ orders = <<>> /\ replies = <<>>
        /\ status = 401 => ~signatureOk
        /\ status = 200 =>
               /\ signatureOk
               /\ \A e \in Handlers : hpc[e] = "done"

\* A request of two text events answered with 200, each event replied to.
C19_Witness ==
    /\ Bot /\ signatureOk /\ status = 200
    /\ Len(events) >= 2
    /\ \A e \in Handlers :
           IsText(events[e]) /\ hpc[e] = "done" /\ RepliesTo(e) # {}

=============================================================================
